---- MODULE Spec2Model ----
(***************************************************************************)
(* Model of the Nintendo Wii U gamepad (DRC) HID driver:                   *)
(*   drivers/hid/hid-nintendo-wiiu.c  (report handler, endpoints, probe)   *)
(*   drivers/hid/hid-nintendo.c       (dispatch of probe and raw_event)    *)
(*                                                                         *)
(* A report is a function from byte offsets 0..len-1 to bytes.  The three  *)
(* input devices of struct drc are the endpoints "joy", "touch", "accel".  *)
(***************************************************************************)
EXTENDS Integers, Naturals, Sequences, FiniteSets, TLC

VARIABLES
    probed,         \* nintendo_hid_probe has run
    fault,          \* the step of the probe that failed ("none": no step)
    probeRet,       \* return value of nintendo_hid_probe
    dev,            \* drc->{joy,touch,accel}_input_dev: "none"/"allocated"/"registered"
    absinfo,        \* axis ranges declared by drc_setup_* (input_set_abs_params)
    hw_started,     \* hid_hw_start succeeded and hid_hw_stop has not run
    ll_open_count,  \* transport opens outstanding (hid_hw_open - hid_hw_close)
    open,           \* endpoint is Registered(open): drc_open returned 0, no drc_close since
    op,             \* the operation that ran last
    opDev,          \* the endpoint the last drc_open/drc_close was called on
    openRet,        \* return value of the last drc_open
    ret,            \* return value of the last wiiu_hid_event
    len,            \* length handed to the last wiiu_hid_event
    data,           \* report handed to the last wiiu_hid_event
    calls,          \* input_report_*/input_sync calls made by the last wiiu_hid_event
    pub,            \* per endpoint, the value last reported for each event code
    delivered,      \* per endpoint, the events of the last report passed to its consumers
    unsynced        \* per endpoint, value reports made since its last input_sync

vars == <<probed, fault, probeRet, dev, absinfo, hw_started, ll_open_count, open,
          op, opDev, openRet, ret, len, data, calls, pub, delivered, unsynced>>

Endpoints == {"joy", "touch", "accel"}

(***************************************************************************)
(* Error numbers and driver constants                                      *)
(***************************************************************************)
EINVAL == 22
ENOMEM == 12

REPORT_LEN == 128

VOLUME_MIN == 0
VOLUME_MAX == 255
NUM_STICK_AXES == 4
STICK_MIN == 900
STICK_MAX == 3200

BIT(n) == 2 ^ n

BUTTON_SYNC  == BIT(0)
BUTTON_HOME  == BIT(1)
BUTTON_MINUS == BIT(2)
BUTTON_PLUS  == BIT(3)
BUTTON_R     == BIT(4)
BUTTON_L     == BIT(5)
BUTTON_ZR    == BIT(6)
BUTTON_ZL    == BIT(7)
BUTTON_DOWN  == BIT(8)
BUTTON_UP    == BIT(9)
BUTTON_RIGHT == BIT(10)
BUTTON_LEFT  == BIT(11)
BUTTON_Y     == BIT(12)
BUTTON_X     == BIT(13)
BUTTON_B     == BIT(14)
BUTTON_A     == BIT(15)
BUTTON_TV    == BIT(21)
BUTTON_R3    == BIT(22)
BUTTON_L3    == BIT(23)
BUTTON_POWER == BIT(25)

NUM_TOUCH_POINTS == 10
MAX_TOUCH_RES == 4096
TOUCH_BORDER_X == 100
TOUCH_BORDER_Y == 200

ACCEL_MIN == -(2 ^ 15)
ACCEL_MAX == (2 ^ 15) - 1
GYRO_MIN == -(2 ^ 23)
GYRO_MAX == (2 ^ 23) - 1
MAGNET_MIN == -(2 ^ 15)
MAGNET_MAX == (2 ^ 15) - 1

(***************************************************************************)
(* C integer arithmetic.  A 32-bit register (int or u32) is held as the    *)
(* two's-complement value of its bit pattern, in -2^31 .. 2^31 - 1.        *)
(***************************************************************************)
RECURSIVE BitOr(_, _)
\* a | b
BitOr(a, b) ==
    IF a = 0 THEN b
    ELSE IF b = 0 THEN a
    ELSE IF a = -1 \/ b = -1 THEN -1
    ELSE (IF (a % 2 = 1) \/ (b % 2 = 1) THEN 1 ELSE 0) + 2 * BitOr(a \div 2, b \div 2)

RECURSIVE BitAnd(_, _)
\* a & b
BitAnd(a, b) ==
    IF a = 0 \/ b = 0 THEN 0
    ELSE IF a = -1 THEN b
    ELSE IF b = -1 THEN a
    ELSE (IF (a % 2 = 1) /\ (b % 2 = 1) THEN 1 ELSE 0) + 2 * BitAnd(a \div 2, b \div 2)

\* v << n for a byte v promoted to int: the bits shifted past bit 31 are lost
\* and bit 31 is the sign (the kernel is built with -fno-strict-overflow)
Shl(v, n) ==
    IF n = 0 THEN v
    ELSE LET m == v % (2 ^ (32 - n))
         IN  IF m >= 2 ^ (31 - n) THEN (m - 2 ^ (32 - n)) * (2 ^ n) ELSE m * (2 ^ n)

\* v >> n on a non-negative value
Shr(v, n) == v \div (2 ^ n)

\* the value of the low 16 bits read as s16 / int16_t
ToS16_unsigned(v) == v % (2 ^ 16)
ToS16(v) == IF v % (2 ^ 16) >= 2 ^ 15 THEN (v % (2 ^ 16)) - 2 ^ 16 ELSE v % (2 ^ 16)

\* x >> n on an int (arithmetic shift: the sign bit is copied in)
Sar_logical(x, n) == IF x < 0 THEN (x \div (2 ^ n)) + 2 ^ (32 - n) ELSE x \div (2 ^ n)
Sar(x, n) == x \div (2 ^ n)

\* clamp(val, lo, hi) of linux/minmax.h
clamp(val, lo, hi) == IF val < lo THEN lo ELSE IF val > hi THEN hi ELSE val

(***************************************************************************)
(* wiiu_hid_event: decoding of one report                                  *)
(***************************************************************************)
Call(d, t, c, v) == [dev |-> d, type |-> t, code |-> c, value |-> v]
input_report_key(d, c, v) == Call(d, "EV_KEY", c, v)
input_report_abs(d, c, v) == Call(d, "EV_ABS", c, v)
input_sync(d) == Call(d, "EV_SYN", "SYN_REPORT", 0)

\* buttons = (data[4] << 24) | (data[80] << 16) | (data[2] << 8) | data[3]
buttons_swapped(d) ==
    BitOr(BitOr(BitOr(Shl(d[4], 24), Shl(d[80], 16)), Shl(d[3], 8)), d[2])
buttons(d) ==
    BitOr(BitOr(BitOr(Shl(d[4], 24), Shl(d[80], 16)), Shl(d[2], 8)), d[3])

\* the keys of the joypad, in the order they are reported, with their masks
JoyKeys ==
    << <<"BTN_DPAD_RIGHT", BUTTON_RIGHT>>, <<"BTN_DPAD_DOWN", BUTTON_DOWN>>,
       <<"BTN_DPAD_LEFT", BUTTON_LEFT>>,   <<"BTN_DPAD_UP", BUTTON_UP>>,
       <<"BTN_EAST", BUTTON_A>>,           <<"BTN_SOUTH", BUTTON_B>>,
       <<"BTN_NORTH", BUTTON_X>>,          <<"BTN_WEST", BUTTON_Y>>,
       <<"BTN_TL", BUTTON_L>>,             <<"BTN_TL2", BUTTON_ZL>>,
       <<"BTN_TR", BUTTON_R>>,             <<"BTN_TR2", BUTTON_ZR>>,
       <<"BTN_Z", BUTTON_TV>>,             <<"BTN_THUMBL", BUTTON_L3>>,
       <<"BTN_THUMBR", BUTTON_R3>>,        <<"BTN_SELECT", BUTTON_MINUS>>,
       <<"BTN_START", BUTTON_PLUS>>,       <<"BTN_MODE", BUTTON_HOME>>,
       <<"BTN_DEAD", BUTTON_POWER>> >>

KeyCalls(d) ==
    LET b == buttons(d)
    IN  [k \in 1..Len(JoyKeys) |->
            input_report_key("joy", JoyKeys[k][1], BitAnd(b, JoyKeys[k][2]))]

\* s16 val = (data[7 + 2*i] << 8) | data[6 + 2*i]; val = clamp(val, STICK_MIN, STICK_MAX)
StickVal_u16(d, i) ==
    clamp(ToS16_unsigned(BitOr(Shl(d[7 + 2 * i], 8), d[6 + 2 * i])), STICK_MIN, STICK_MAX)
StickVal(d, i) ==
    clamp(ToS16(BitOr(Shl(d[7 + 2 * i], 8), d[6 + 2 * i])), STICK_MIN, STICK_MAX)

StickCode == <<"ABS_X", "ABS_Y", "ABS_RX", "ABS_RY">>

StickCalls(d) ==
    [k \in 1..NUM_STICK_AXES |-> input_report_abs("joy", StickCode[k], StickVal(d, k - 1))]

JoypadCalls_nosync(d) ==
    KeyCalls(d) \o StickCalls(d) \o <<input_report_abs("joy", "ABS_VOLUME", d[14])>>
JoypadCalls(d) ==
    KeyCalls(d) \o StickCalls(d)
        \o <<input_report_abs("joy", "ABS_VOLUME", d[14]), input_sync("joy")>>

\* the 12-bit samples of touch record i, base = 36 + 4 * i
TouchX(d, i) == BitOr(Shl(BitAnd(d[36 + 4 * i + 1], 15), 8), d[36 + 4 * i])
TouchY(d, i) == BitOr(Shl(BitAnd(d[36 + 4 * i + 3], 15), 8), d[36 + 4 * i + 2])

RECURSIVE SumTouchX(_, _)
SumTouchX(d, n) == IF n = 0 THEN 0 ELSE SumTouchX(d, n - 1) + TouchX(d, n - 1)

RECURSIVE SumTouchY(_, _)
SumTouchY(d, n) == IF n = 0 THEN 0 ELSE SumTouchY(d, n - 1) + TouchY(d, n - 1)

\* x /= NUM_TOUCH_POINTS; y /= NUM_TOUCH_POINTS
touch_x(d) == SumTouchX(d, NUM_TOUCH_POINTS) \div NUM_TOUCH_POINTS
touch_y(d) == SumTouchY(d, NUM_TOUCH_POINTS) \div NUM_TOUCH_POINTS

pressure(d) ==
    BitOr(BitOr(BitOr(Shl(BitAnd(Shr(d[37], 4), 7), 0),
                      Shl(BitAnd(Shr(d[39], 4), 7), 3)),
                Shl(BitAnd(Shr(d[41], 4), 7), 6)),
          Shl(BitAnd(Shr(d[43], 4), 7), 9))

TouchCalls(d) ==
    (IF pressure(d) # 0
     THEN <<input_report_key("touch", "BTN_TOUCH", 1),
            input_report_key("touch", "BTN_TOOL_FINGER", 1),
            input_report_abs("touch", "ABS_X", touch_x(d)),
            input_report_abs("touch", "ABS_Y", MAX_TOUCH_RES - touch_y(d))>>
     ELSE <<input_report_key("touch", "BTN_TOUCH", 0),
            input_report_key("touch", "BTN_TOOL_FINGER", 0)>>)
    \o <<input_sync("touch")>>

\* (int16_t)((data[lo + 1] << 8) | data[lo])
Sensor16(d, lo) == ToS16(BitOr(Shl(d[lo + 1], 8), d[lo]))

\* x = (data[lo + 2] << 24) | (data[lo + 1] << 16) | (data[lo] << 8); x >> 8
GyroVal_unsigned(d, lo) ==
    Sar_logical(BitOr(BitOr(Shl(d[lo + 2], 24), Shl(d[lo + 1], 16)), Shl(d[lo], 8)), 8)
GyroVal(d, lo) ==
    Sar(BitOr(BitOr(Shl(d[lo + 2], 24), Shl(d[lo + 1], 16)), Shl(d[lo], 8)), 8)

AccelCalls(d) ==
    <<input_report_abs("accel", "ABS_X", Sensor16(d, 15)),
      input_report_abs("accel", "ABS_Y", Sensor16(d, 17)),
      input_report_abs("accel", "ABS_Z", Sensor16(d, 19)),
      input_report_abs("accel", "ABS_RX", GyroVal(d, 21)),
      input_report_abs("accel", "ABS_RY", GyroVal(d, 24)),
      input_report_abs("accel", "ABS_RZ", GyroVal(d, 27)),
      input_report_abs("accel", "ABS_THROTTLE", Sensor16(d, 30)),
      input_report_abs("accel", "ABS_RUDDER", Sensor16(d, 32)),
      input_report_abs("accel", "ABS_WHEEL", Sensor16(d, 34)),
      input_sync("accel")>>

\* if (len != 128) return -EINVAL;
ValidLength_atleast(l) == l >= REPORT_LEN
ValidLength(l) == l = REPORT_LEN

\* every call wiiu_hid_event makes for a report of length l, in order
EventCalls_joyonly(l, d) == IF ValidLength(l) THEN JoypadCalls(d) ELSE <<>>
EventCalls(l, d) ==
    IF ValidLength(l) THEN JoypadCalls(d) \o TouchCalls(d) \o AccelCalls(d) ELSE <<>>

EventRet(l) == IF ValidLength(l) THEN 0 ELSE -EINVAL

(***************************************************************************)
(* What the calls of one report do to the endpoints                        *)
(***************************************************************************)
EndpointCodes(e) ==
    CASE e = "joy" ->
            {JoyKeys[k][1] : k \in 1..Len(JoyKeys)}
                \cup {StickCode[k] : k \in 1..NUM_STICK_AXES} \cup {"ABS_VOLUME"}
      [] e = "touch" -> {"BTN_TOUCH", "BTN_TOOL_FINGER", "ABS_X", "ABS_Y"}
      [] e = "accel" ->
            {"ABS_X", "ABS_Y", "ABS_Z", "ABS_RX", "ABS_RY", "ABS_RZ",
             "ABS_THROTTLE", "ABS_RUDDER", "ABS_WHEEL"}

\* the calls of cs made on endpoint e, in order
EndpointCalls(cs, e) == SelectSeq(cs, LAMBDA c : c.dev = e)

RECURSIVE ApplyFrom(_, _, _)
ApplyFrom(p, cs, i) ==
    IF i > Len(cs) THEN p
    ELSE ApplyFrom(IF cs[i].type = "EV_SYN" THEN p
                   ELSE [p EXCEPT ![cs[i].dev][cs[i].code] = cs[i].value],
                   cs, i + 1)

\* the value last reported per endpoint and code, after the calls cs
ApplyCalls(p, cs) == ApplyFrom(p, cs, 1)

RECURSIVE CountFrom(_, _, _)
CountFrom(u, cs, i) ==
    IF i > Len(cs) THEN u
    ELSE CountFrom([u EXCEPT ![cs[i].dev] = IF cs[i].type = "EV_SYN" THEN 0 ELSE @ + 1],
                   cs, i + 1)

\* per endpoint, the value reports not yet followed by an input_sync
CountUnsynced(u, cs) == CountFrom(u, cs, 1)

\* the input sink passes the events of an endpoint to its consumers only
\* while the endpoint is open; on a closed endpoint they are dropped
input_pass_values(isOpen, cs) == IF isOpen THEN cs ELSE <<>>

(***************************************************************************)
(* Endpoint declarations (drc_setup_joypad, drc_setup_touch,               *)
(* drc_setup_accel)                                                        *)
(***************************************************************************)
AbsParams(lo, hi, fuzz, flat) == [min |-> lo, max |-> hi, fuzz |-> fuzz, flat |-> flat]

NoAbs == [c \in {} |-> AbsParams(0, 0, 0, 0)]

drc_setup_joypad ==
    [c \in {"ABS_X", "ABS_Y", "ABS_RX", "ABS_RY", "ABS_VOLUME"} |->
        IF c = "ABS_VOLUME" THEN AbsParams(VOLUME_MIN, VOLUME_MAX, 0, 0)
        ELSE AbsParams(STICK_MIN, STICK_MAX, 0, 0)]

drc_setup_touch ==
    [c \in {"ABS_X", "ABS_Y"} |->
        IF c = "ABS_X"
        THEN AbsParams(TOUCH_BORDER_X, MAX_TOUCH_RES - TOUCH_BORDER_X, 20, 0)
        ELSE AbsParams(TOUCH_BORDER_Y, MAX_TOUCH_RES - TOUCH_BORDER_Y, 20, 0)]

drc_setup_accel ==
    [c \in EndpointCodes("accel") |->
        IF c \in {"ABS_X", "ABS_Y", "ABS_Z"} THEN AbsParams(ACCEL_MIN, ACCEL_MAX, 0, 0)
        ELSE IF c \in {"ABS_RX", "ABS_RY", "ABS_RZ"} THEN AbsParams(GYRO_MIN, GYRO_MAX, 0, 0)
        ELSE AbsParams(MAGNET_MIN, MAGNET_MAX, 0, 0)]

DeclaredAbs(e) ==
    CASE e = "joy" -> drc_setup_joypad
      [] e = "touch" -> drc_setup_touch
      [] e = "accel" -> drc_setup_accel

(***************************************************************************)
(* wiiu_hid_probe, as called by nintendo_hid_probe                         *)
(***************************************************************************)
\* the steps of wiiu_hid_probe that can fail, in the order they run
ProbeSteps ==
    <<"kzalloc", "parse", "alloc_joy", "alloc_touch", "alloc_accel",
      "hw_start", "reg_joy", "reg_touch", "reg_accel">>

Faults == {ProbeSteps[k] : k \in 1..Len(ProbeSteps)} \cup {"none"}

StepOf(f) ==
    IF f = "none" THEN Len(ProbeSteps) + 1
    ELSE CHOOSE k \in 1..Len(ProbeSteps) : ProbeSteps[k] = f

\* step was run, and succeeded, in a probe whose step f fails
Passed(f, step) == StepOf(f) > StepOf(step)

\* the value wiiu_hid_probe returns when step f fails
wiiu_hid_probe_ret(f) ==
    CASE f = "none" -> 0
      [] f = "kzalloc" -> -ENOMEM
      [] f = "parse" -> -EINVAL
      [] f \in {"alloc_joy", "alloc_touch", "alloc_accel"} -> -ENOMEM
      [] f = "hw_start" -> -ENOMEM
      [] f \in {"reg_joy", "reg_touch", "reg_accel"} -> 1

\* the input devices at the return of wiiu_hid_probe
ProbeDevs(f) ==
    [e \in Endpoints |->
        IF Passed(f, "reg_" \o e) THEN "registered"
        ELSE IF Passed(f, "alloc_" \o e) THEN "allocated"
        ELSE "none"]

\* hid_hw_start has run and succeeded; no path of wiiu_hid_probe calls hid_hw_stop
ProbeHwStarted(f) == Passed(f, "hw_start")

\* the input devices come from devm_input_allocate_device: when the probe
\* fails the driver core releases them, unregistering those registered
devres_release(r, d) == IF r # 0 THEN [e \in Endpoints |-> "none"] ELSE d

(***************************************************************************)
(* The reports handed to the handler                                       *)
(***************************************************************************)
\* the lengths tried are REPORT_LEN - LenSlack .. REPORT_LEN + LenSlack
LenSlack == 1

Lengths == (REPORT_LEN - LenSlack)..(REPORT_LEN + LenSlack)

\* the report with the bytes of ov at its offsets and 0 elsewhere
With(ov) == [i \in 0..(REPORT_LEN - 1) |-> IF i \in DOMAIN ov THEN ov[i] ELSE 0]

\* the report r cut or zero-extended to length l
Resize(r, l) == [i \in 0..(l - 1) |-> IF i \in DOMAIN r THEN r[i] ELSE 0]

\* the report whose button bytes hold the bits in set bs (bit 0..31 of the field)
ButtonByte(bs, lo) ==
    (IF lo \in bs THEN 1 ELSE 0) + (IF lo + 1 \in bs THEN 2 ELSE 0)
        + (IF lo + 2 \in bs THEN 4 ELSE 0) + (IF lo + 3 \in bs THEN 8 ELSE 0)
        + (IF lo + 4 \in bs THEN 16 ELSE 0) + (IF lo + 5 \in bs THEN 32 ELSE 0)
        + (IF lo + 6 \in bs THEN 64 ELSE 0) + (IF lo + 7 \in bs THEN 128 ELSE 0)

ButtonReport(bs) ==
    With(3 :> ButtonByte(bs, 0) @@ 2 :> ButtonByte(bs, 8)
           @@ 80 :> ButtonByte(bs, 16) @@ 4 :> ButtonByte(bs, 24))

ButtonReports ==
    {ButtonReport({})} \cup {ButtonReport(0..31)}
        \cup {ButtonReport({b}) : b \in 0..31}
        \cup {ButtonReport((0..31) \ {b}) : b \in 0..31}

AOnly == ButtonReport({15})

\* raw 16-bit stick samples, as unsigned bit patterns
StickSamples == {0, 899, 900, 2048, 3200, 3201, 32767, 32768, 65535}

\* stick axis i carries sample v, the other axes 2048
StickReport(i, v) ==
    With([o \in 6..13 |->
            LET w == IF (o - 6) \div 2 = i THEN v ELSE 2048
            IN  IF o % 2 = 0 THEN w % 256 ELSE w \div 256])

StickReports == {StickReport(i, v) : i \in 0..(NUM_STICK_AXES - 1), v \in StickSamples}

\* the ten touch records carry X[r], Y[r]; N1[r], N3[r] are the high nibbles
\* of bytes 1 and 3 of record r
TouchReport(X, Y, N1, N3) ==
    With([o \in 36..75 |->
            LET r == (o - 36) \div 4
                k == (o - 36) % 4
            IN  CASE k = 0 -> X[r] % 256
                  [] k = 1 -> (X[r] \div 256) + 16 * N1[r]
                  [] k = 2 -> Y[r] % 256
                  [] k = 3 -> (Y[r] \div 256) + 16 * N3[r]])

Records == 0..(NUM_TOUCH_POINTS - 1)
Uniform(v) == [r \in Records |-> v]
NoNibble == Uniform(0)

\* high-nibble patterns <<N1, N3>>: none set; bits 0..2 of the pressure; bits
\* 9..11 of it; bit 3 of a nibble only (masked off); a record the pressure
\* does not read
NibblePatterns ==
    { <<NoNibble, NoNibble>>,
      <<[NoNibble EXCEPT ![0] = 1], NoNibble>>,
      <<NoNibble, [NoNibble EXCEPT ![1] = 7]>>,
      <<[NoNibble EXCEPT ![0] = 8], NoNibble>>,
      <<[NoNibble EXCEPT ![2] = 7], NoNibble>> }

\* uniform records: <<x, y>> of every record
TouchSamples == { <<0, 4095>>, <<2048, 2048>>, <<4095, 0>> }

\* samples that differ between the records: their mean is not an integer
Spread == { [r \in Records |-> r], [r \in Records |-> IF r = 9 THEN 2057 ELSE 2048],
            [r \in Records |-> IF r < 5 THEN 4095 ELSE 4086] }

TouchReports ==
    {TouchReport(Uniform(t[1]), Uniform(t[2]), n[1], n[2]) :
        t \in TouchSamples, n \in NibblePatterns}
    \cup {TouchReport(s, s, n[1], n[2]) : s \in Spread, n \in NibblePatterns}

\* three little-endian bytes of a gyroscope axis
GyroSamples ==
    { <<0, 0, 0>>, <<255, 255, 127>>, <<0, 0, 128>>, <<255, 255, 255>>,
      <<1, 0, 0>>, <<86, 52, 18>> }

GyroReports ==
    {With([o \in lo..(lo + 2) |-> g[o - lo + 1]]) : lo \in {21, 24, 27}, g \in GyroSamples}

\* accelerometer, magnetometer and volume bytes
SensorReports ==
    {With([o \in lo..(lo + 1) |-> v[o - lo + 1]]) :
        lo \in {15, 17, 19, 30, 32, 34}, v \in { <<0, 128>>, <<255, 127>> }}
    \cup {With(14 :> v) : v \in {17, 255}}

DecodeReports ==
    ButtonReports \cup StickReports \cup TouchReports \cup GyroReports \cup SensorReports

\* ten records X = 2048, Y = 2048 with a non-zero pressure sub-field
Touch2048 == TouchReport(Uniform(2048), Uniform(2048), [NoNibble EXCEPT ![0] = 1], NoNibble)

LifecycleReports ==
    {With(<<>>), AOnly, Touch2048, StickReport(0, 65535),
     With(21 :> 0 @@ 22 :> 0 @@ 23 :> 128)}

(***************************************************************************)
(* State after the module is loaded: no device bound                       *)
(***************************************************************************)
Init ==
    /\ probed = FALSE
    /\ fault = "none"
    /\ probeRet = 0
    /\ dev = [e \in Endpoints |-> "none"]
    /\ absinfo = [e \in Endpoints |-> NoAbs]
    /\ hw_started = FALSE
    /\ ll_open_count = 0
    /\ open = [e \in Endpoints |-> FALSE]
    /\ op = "none"
    /\ opDev = "none"
    /\ openRet = 0
    /\ ret = 0
    /\ len = 0
    /\ data = <<>>
    /\ calls = <<>>
    /\ pub = [e \in Endpoints |-> [c \in EndpointCodes(e) |-> 0]]
    /\ delivered = [e \in Endpoints |-> <<>>]
    /\ unsynced = [e \in Endpoints |-> 0]

\* nintendo_hid_probe -> wiiu_hid_probe, with step f failing ("none": no step)
nintendo_hid_probe(f) ==
    /\ ~probed
    /\ probed' = TRUE
    /\ fault' = f
    /\ probeRet' = wiiu_hid_probe_ret(f)
    /\ dev' = devres_release(wiiu_hid_probe_ret(f), ProbeDevs(f))
    /\ absinfo' = [e \in Endpoints |-> IF dev'[e] = "none" THEN NoAbs ELSE DeclaredAbs(e)]
    /\ hw_started' = ProbeHwStarted(f)
    /\ op' = "probe"
    /\ UNCHANGED <<ll_open_count, open, opDev, openRet, ret, len, data, calls, pub,
                   delivered, unsynced>>

\* the driver is bound to the device: raw_event, open and close can be called
Bound == probed /\ probeRet = 0

\* nintendo_hid_event -> wiiu_hid_event(hdev, report, d, l)
wiiu_hid_event(l, d) ==
    /\ Bound
    /\ len' = l
    /\ data' = d
    /\ ret' = EventRet(l)
    /\ calls' = EventCalls(l, d)
    /\ pub' = ApplyCalls(pub, calls')
    /\ unsynced' = CountUnsynced(unsynced, calls')
    /\ delivered' = [e \in Endpoints |-> input_pass_values(open[e], EndpointCalls(calls', e))]
    /\ op' = "wiiu_hid_event"
    /\ UNCHANGED <<probed, fault, probeRet, dev, absinfo, hw_started, ll_open_count,
                   open, opDev, openRet>>

\* hid_hw_open: counts the open unless the transport fails (a negative errno)
hid_hw_open(cnt, ok) ==
    [count |-> IF ok THEN cnt + 1 ELSE cnt, ret |-> IF ok THEN 0 ELSE -ENOMEM]

\* hid_hw_close
hid_hw_close(cnt) == cnt - 1

\* drc_open(e): the input sink calls it for the first consumer of a closed
\* endpoint and leaves the endpoint closed when it returns an error
drc_open_ignored(e, ok) ==
    /\ Bound
    /\ dev[e] = "registered"
    /\ ~open[e]
    /\ ll_open_count' = hid_hw_open(ll_open_count, ok).count
    /\ openRet' = 0
    /\ open' = [open EXCEPT ![e] = TRUE]
    /\ op' = "drc_open"
    /\ opDev' = e
    /\ UNCHANGED <<probed, fault, probeRet, dev, absinfo, hw_started, ret, len, data,
                   calls, pub, delivered, unsynced>>
drc_open(e, ok) ==
    /\ Bound
    /\ dev[e] = "registered"
    /\ ~open[e]
    /\ ll_open_count' = hid_hw_open(ll_open_count, ok).count
    /\ openRet' = hid_hw_open(ll_open_count, ok).ret
    /\ open' = [open EXCEPT ![e] = (openRet' = 0)]
    /\ op' = "drc_open"
    /\ opDev' = e
    /\ UNCHANGED <<probed, fault, probeRet, dev, absinfo, hw_started, ret, len, data,
                   calls, pub, delivered, unsynced>>

\* drc_close(e): the input sink calls it when the last consumer closes
drc_close(e) ==
    /\ Bound
    /\ open[e]
    /\ ll_open_count' = hid_hw_close(ll_open_count)
    /\ open' = [open EXCEPT ![e] = FALSE]
    /\ op' = "drc_close"
    /\ opDev' = e
    /\ UNCHANGED <<probed, fault, probeRet, dev, absinfo, hw_started, openRet, ret, len,
                   data, calls, pub, delivered, unsynced>>

Next ==
    \/ \E f \in Faults : nintendo_hid_probe(f)
    \/ \E l \in Lengths, d \in LifecycleReports : wiiu_hid_event(l, Resize(d, l))
    \/ \E e \in Endpoints, ok \in BOOLEAN : drc_open(e, ok)
    \/ \E e \in Endpoints : drc_close(e)

Spec == Init /\ [][Next]_vars

(***************************************************************************)
(* The decoder on its own: the device is bound, the three endpoints are    *)
(* open, and every report has the right length                             *)
(***************************************************************************)
InitDecode ==
    /\ probed = TRUE
    /\ fault = "none"
    /\ probeRet = 0
    /\ dev = [e \in Endpoints |-> "registered"]
    /\ absinfo = [e \in Endpoints |-> DeclaredAbs(e)]
    /\ hw_started = TRUE
    /\ ll_open_count = 3
    /\ open = [e \in Endpoints |-> TRUE]
    /\ op = "drc_open"
    /\ opDev = "accel"
    /\ openRet = 0
    /\ ret = 0
    /\ len = 0
    /\ data = <<>>
    /\ calls = <<>>
    /\ pub = [e \in Endpoints |-> [c \in EndpointCodes(e) |-> 0]]
    /\ delivered = [e \in Endpoints |-> <<>>]
    /\ unsynced = [e \in Endpoints |-> 0]

NextDecode == \E d \in DecodeReports : wiiu_hid_event(REPORT_LEN, d)

SpecDecode == InitDecode /\ [][NextDecode]_vars

(***************************************************************************)
(* Properties                                                              *)
(***************************************************************************)
\* the last operation was a report the handler accepted
Accepted == op = "wiiu_hid_event" /\ len = REPORT_LEN

\* the positions in calls of the calls on endpoint e with code c
CallsOf(e, c) == {i \in 1..Len(calls) : calls[i].dev = e /\ calls[i].code = c}

\* the value of the one call on endpoint e with code c
ValueOf(e, c) == calls[CHOOSE i \in CallsOf(e, c) : TRUE].value

\* the positions in calls of the value reports / of the synchronize calls on e
ValuePos(e) == {i \in 1..Len(calls) : calls[i].dev = e /\ calls[i].type # "EV_SYN"}
SyncPos(e) == {i \in 1..Len(calls) : calls[i].dev = e /\ calls[i].type = "EV_SYN"}

\* the raw 12-bit Y sample of touch record r and the truncated mean of the
\* ten, computed from the bytes by arithmetic
RawY(d, r) == d[38 + 4 * r] + 256 * (d[39 + 4 * r] % 16)
MeanY(d) ==
    (RawY(d, 0) + RawY(d, 1) + RawY(d, 2) + RawY(d, 3) + RawY(d, 4)
        + RawY(d, 5) + RawY(d, 6) + RawY(d, 7) + RawY(d, 8) + RawY(d, 9)) \div 10

\* some 3-bit pressure sub-field of the report is non-zero
Pressed(d) == \E o \in {37, 39, 41, 43} : (d[o] \div 16) % 8 # 0

\* C1: a report whose length is not 128 is rejected with an error; the handler
\* makes no key, axis or synchronize call on any endpoint, nothing is passed
\* to any consumer, and the values published by the endpoints stay as they were.
C1_WrongLengthRejected ==
    /\ [](op = "wiiu_hid_event" /\ len # 128
            => /\ ret = -EINVAL
               /\ calls = <<>>
               /\ \A e \in Endpoints : delivered[e] = <<>>)
    /\ [][op' = "wiiu_hid_event" /\ len' # 128
            => pub' = pub /\ unsynced' = unsynced]_vars

\* a 127-byte report holding the bytes of "A pressed" is rejected after a touch
\* at X = 2048 was published: the touch stays published, key A stays released
C1_Witness ==
    /\ op = "wiiu_hid_event"
    /\ len = 127
    /\ data[2] = 128
    /\ ret = -EINVAL
    /\ pub["touch"]["ABS_X"] = 2048
    /\ pub["joy"]["BTN_EAST"] = 0

\* C2: attach fails whenever an endpoint cannot be allocated or registered,
\* and after a failed attach no endpoint is left allocated or registered and
\* nothing the attach started, the transport included, is still active.
C2_FailedAttachLeavesNothing ==
    /\ (probed /\ fault \in {"alloc_joy", "alloc_touch", "alloc_accel",
                             "reg_joy", "reg_touch", "reg_accel"}) => probeRet # 0
    /\ (probed /\ probeRet # 0)
          => /\ \A e \in Endpoints : dev[e] = "none"
             /\ ~hw_started
             /\ ll_open_count = 0

\* C3: for an accepted report with non-zero pressure the Y reported on the
\* touchscreen is 4095 minus the truncated mean of the ten raw Y samples; ten
\* records X = 2048, Y = 2048 give X = 2048 and Y = 2047.
C3_TouchYIs4095MinusMean ==
    (Accepted /\ Pressed(data))
        => /\ ValueOf("touch", "ABS_Y") = 4095 - MeanY(data)
           /\ (data = Touch2048
                 => ValueOf("touch", "ABS_X") = 2048 /\ ValueOf("touch", "ABS_Y") = 2047)

\* C4: for an accepted report with non-zero pressure the position reported on
\* the touchscreen lies in X [100, 4095-100], Y [200, 4095-200], and these are
\* the ranges declared for the touchscreen axes at attach.
C4_TouchClampedToDeclared ==
    (Accepted /\ Pressed(data))
        => /\ ValueOf("touch", "ABS_X") \in 100..(4095 - 100)
           /\ ValueOf("touch", "ABS_Y") \in 200..(4095 - 200)
           /\ absinfo["touch"]["ABS_X"].min = 100
           /\ absinfo["touch"]["ABS_X"].max = 4095 - 100
           /\ absinfo["touch"]["ABS_Y"].min = 200
           /\ absinfo["touch"]["ABS_Y"].max = 4095 - 200

\* the number of calls the handler makes on endpoint e for report d
PartLen(e, d) ==
    CASE e = "joy" -> 25
      [] e = "touch" -> IF Pressed(d) THEN 5 ELSE 3
      [] e = "accel" -> 10

\* C5: a report published while an endpoint is closed is not fatal: the
\* handler returns success, nothing of the report is passed to the consumers
\* of a closed endpoint, and every open endpoint is passed its whole part of
\* the report, ending with its synchronize.
C5_ClosedEndpointDropsEvents ==
    Accepted
        => /\ ret = 0
           /\ \A e \in Endpoints :
                /\ ~open[e] => delivered[e] = <<>>
                /\ open[e]
                     => /\ Len(delivered[e]) = PartLen(e, data)
                        /\ \A i \in 1..Len(delivered[e]) : delivered[e][i].dev = e
                        /\ delivered[e][Len(delivered[e])].type = "EV_SYN"

\* a touch is published while the touchscreen is closed and the joypad open
C5_Witness ==
    /\ Accepted
    /\ data = Touch2048
    /\ ~open["touch"]
    /\ open["joy"]
    /\ delivered["touch"] = <<>>
    /\ Len(delivered["joy"]) = 25

\* C6: for an accepted report each endpoint gets exactly one synchronize call,
\* made after every value report to that endpoint for the report; between
\* reports no endpoint holds a value report without a following synchronize.
C6_OneSyncPerEndpoint ==
    /\ \A e \in Endpoints : unsynced[e] = 0
    /\ Accepted
         => \A e \in Endpoints :
              /\ Cardinality(SyncPos(e)) = 1
              /\ ValuePos(e) # {}
              /\ \A i \in ValuePos(e), j \in SyncPos(e) : i < j

\* a pressed touch was published: 25 + 5 + 10 calls, three of them synchronize
C6_Witness ==
    /\ Accepted
    /\ Pressed(data)
    /\ Len(calls) = 40
    /\ Cardinality(SyncPos("joy") \cup SyncPos("touch") \cup SyncPos("accel")) = 3

\* the bit of the button field each joypad key stands for
KeyBit ==
    [BTN_DPAD_RIGHT |-> 10, BTN_DPAD_DOWN |-> 8, BTN_DPAD_LEFT |-> 11, BTN_DPAD_UP |-> 9,
     BTN_EAST |-> 15, BTN_SOUTH |-> 14, BTN_NORTH |-> 13, BTN_WEST |-> 12,
     BTN_TL |-> 5, BTN_TL2 |-> 7, BTN_TR |-> 4, BTN_TR2 |-> 6,
     BTN_Z |-> 21, BTN_THUMBL |-> 23, BTN_THUMBR |-> 22,
     BTN_SELECT |-> 2, BTN_START |-> 3, BTN_MODE |-> 1, BTN_DEAD |-> 25]

\* bit n of the field whose bits 31..24 are byte 4, 23..16 byte 80, 15..8 byte
\* 2 and 7..0 byte 3
FieldBit(d, n) ==
    LET byte == CASE n \div 8 = 3 -> d[4] [] n \div 8 = 2 -> d[80]
                  [] n \div 8 = 1 -> d[2] [] n \div 8 = 0 -> d[3]
    IN  (byte \div (2 ^ (n % 8))) % 2

\* the joypad keys reported active by the last report
ActiveKeys == {k \in DOMAIN KeyBit : ValueOf("joy", k) # 0}

\* C7: for an accepted report each of the 19 joypad keys is reported once,
\* active iff its mask bit is set in the field made of bytes 4, 80, 2 and 3, whatever
\* the other bits; a report with only button A set gives exactly one active key,
\* the one of A, and one synchronize on the joypad after the keys.
C7_KeysFollowMaskBits ==
    Accepted
        => /\ Cardinality(DOMAIN KeyBit) = 19
           /\ \A k \in DOMAIN KeyBit :
                /\ Cardinality(CallsOf("joy", k)) = 1
                /\ (ValueOf("joy", k) # 0) <=> (FieldBit(data, KeyBit[k]) = 1)
           /\ (data = AOnly
                 => /\ ActiveKeys = {"BTN_EAST"}
                    /\ Cardinality(SyncPos("joy")) = 1
                    /\ \A i \in CallsOf("joy", "BTN_EAST"), j \in SyncPos("joy") : i < j)

\* the report with only button A set was published
C7_Witness == Accepted /\ data = AOnly /\ ActiveKeys = {"BTN_EAST"}

\* the raw sample of stick axis i read as a signed 16-bit value
RawStick(d, i) ==
    LET u == d[6 + 2 * i] + 256 * d[7 + 2 * i]
    IN  IF u >= 32768 THEN u - 65536 ELSE u

\* C8: for an accepted report each stick axis X, Y, RX, RY is reported in
\* [900, 3200]: the signed raw sample itself when it is in the range, 900 when
\* it is below (every negative sample included), 3200 when it is above.
C8_SticksSaturate ==
    Accepted
        => \A i \in 0..3 :
             LET v == ValueOf("joy", StickCode[i + 1])
                 s == RawStick(data, i)
             IN  /\ v \in 900..3200
                 /\ s \in 900..3200 => v = s
                 /\ s < 900 => v = 900
                 /\ s > 3200 => v = 3200

\* the sample FF FF (-1) on the X axis is reported as 900
C8_Witness ==
    /\ Accepted
    /\ RawStick(data, 0) = -1
    /\ ValueOf("joy", "ABS_X") = 900

\* the 24-bit two's-complement value of three little-endian bytes at lo
Raw24(d, lo) ==
    LET u == d[lo] + 256 * d[lo + 1] + 65536 * d[lo + 2]
    IN  IF u >= 8388608 THEN u - 16777216 ELSE u

GyroAt == [ABS_RX |-> 21, ABS_RY |-> 24, ABS_RZ |-> 27]

\* C9: for an accepted report each gyroscope axis is reported as the 24-bit
\* two's-complement value of its three little-endian bytes, sign-extended: it
\* lies in [-8388608, 8388607], the declared range; 00 00 00 gives 0, FF FF 7F
\* gives 8388607, 00 00 80 gives -8388608.
C9_GyroSignExtended ==
    Accepted
        => \A a \in DOMAIN GyroAt :
             LET v == ValueOf("accel", a)
                 lo == GyroAt[a]
             IN  /\ v = Raw24(data, lo)
                 /\ v \in (-8388608)..8388607
                 /\ absinfo["accel"][a].min = -8388608
                 /\ absinfo["accel"][a].max = 8388607
                 /\ <<data[lo], data[lo + 1], data[lo + 2]>> = <<0, 0, 0>> => v = 0
                 /\ <<data[lo], data[lo + 1], data[lo + 2]>> = <<255, 255, 127>> => v = 8388607
                 /\ <<data[lo], data[lo + 1], data[lo + 2]>> = <<0, 0, 128>> => v = -8388608

\* the bytes 00 00 80 of the RY axis were published as -8388608
C9_Witness ==
    /\ Accepted
    /\ <<data[24], data[25], data[26]>> = <<0, 0, 128>>
    /\ ValueOf("accel", "ABS_RY") = -8388608

\* C10: after any sequence of open and close requests the transport opens
\* outstanding are as many as the endpoints that are open; an open request
\* whose transport open fails leaves its endpoint closed, one that succeeds
\* leaves it open, and a close request leaves it closed.
C10_OpensMatchOpenEndpoints ==
    /\ ll_open_count = Cardinality({e \in Endpoints : open[e]})
    /\ \A e \in Endpoints : open[e] => dev[e] = "registered"
    /\ (op = "drc_open" /\ openRet # 0) => ~open[opDev]
    /\ (op = "drc_open" /\ openRet = 0) => open[opDev]
    /\ op = "drc_close" => ~open[opDev]

\* with the joypad open, the transport open forwarded for the touchscreen failed
C10_Witness ==
    /\ op = "drc_open"
    /\ opDev = "touch"
    /\ openRet # 0
    /\ open["joy"]
    /\ ~open["touch"]
    /\ ll_open_count = 1

====
